---------------------------- MODULE Spec2Model ----------------------------
(***************************************************************************)
(* A model of src/src/stringbuf.c: the growable, null-terminated UTF-8     *)
(* string buffer of a line editor, its forward/backward display-unit       *)
(* scanner and its terminal row layout.                                    *)
(*                                                                         *)
(* Conventions.  A buffer's storage maps the C indices that were written   *)
(* to bytes 0..255; a NULL pointer is the empty function.  A read outside  *)
(* the storage or of a cell never written is undefined behaviour: it       *)
(* yields the byte `junk`, which the actions choose nondeterministically.  *)
(* A source string is the sequence of its bytes.                           *)
(***************************************************************************)
EXTENDS Integers, Sequences, FiniteSets, TLC

VARIABLES buf, buflen, count, wc, last

vars == <<buf, buflen, count, wc, last>>

(***************************************************************************)
(* Bounds of the model.                                                    *)
(***************************************************************************)
\* longest content the editing specifications build
MaxLen == 3
\* longest content of the display-unit editing specification
MaxEdit == 4
\* longest byte string the scanner and layout specification draws
MaxScanLen == 3
\* longest content of the specification with inputs as long as the storage
MaxLong == 126
\* widest terminal of the layout queries
MaxTermW == 3

(***************************************************************************)
(* Program constants.                                                      *)
(***************************************************************************)
\* '\x1B', the first byte of an escape sequence
ESC == 27
\* '\n'
NL == 10
\* the first capacity sbuf_ensure_extra allocates
InitialCap == 124
\* the scratch bound of sbuf_swap_char
SwapLimit == 63
\* shown for a cell of the content that was never written
Uninit == 0 - 1

(***************************************************************************)
(* Memory.  Storage is the function from the C indices that were written   *)
(* to the bytes they hold.                                                 *)
(***************************************************************************)
IsNull(s) == DOMAIN s = {}

\* the byte at C index i of s; outside the storage or never written: junk
Rd(s, i, junk) == IF i \in DOMAIN s THEN s[i] ELSE junk

\* s[i] = b
Wr(s, i, b) == [j \in DOMAIN s \cup {i} |-> IF j = i THEN b ELSE s[j]]

Rep(b, n) == [i \in 1..n |-> b]

\* memmove(s + dst, s + src, n): a cell before the storage reads as junk, and a
\* cell never written stays so in the copy
rp_memmove(s, dst, src, n, junk) ==
    LET to   == dst..(dst + n - 1)
        from(j) == j - dst + src
        dom  == (DOMAIN s \ to) \cup {j \in to : from(j) \in DOMAIN s \/ from(j) < 0}
    IN [j \in dom |-> IF j \in to THEN Rd(s, from(j), junk) ELSE s[j]]

\* memcpy(s + dst, src, n) from another array, src given by its cells 1..n
rp_memcpy(s, dst, src, n) ==
    LET to == dst..(dst + n - 1)
    IN [j \in DOMAIN s \cup to |-> IF j \in to THEN src[j - dst + 1] ELSE s[j]]

(***************************************************************************)
(* Column width.                                                           *)
(***************************************************************************)
\* mk_wcwidth comes from wcwidth.c, which is included and not part of this
\* file: "the column width of a codepoint (0, 1, or 2)".  The table is fixed
\* for a run; wc is the width it gives the code points that occur.
Widths == 0..2

mk_wcwidth(c) == wc

\* utf8_char_width(s + p, n)
utf8_char_width(s, p, n, junk) ==
    IF n <= 0 THEN 0
    ELSE LET b  == Rd(s, p, junk)
             c1 == Rd(s, p + 1, junk) % 64
             c2 == Rd(s, p + 2, junk) % 64
             c3 == Rd(s, p + 3, junk) % 64
         IN IF b < 32 THEN 0
            ELSE IF b <= 127 THEN 1
            ELSE IF b <= 193 THEN 1
            ELSE IF b <= 223 /\ n >= 2 THEN mk_wcwidth((b % 32) * 64 + c1)
            ELSE IF b <= 239 /\ n >= 3
                 THEN mk_wcwidth((b % 16) * 4096 + c1 * 64 + c2)
            ELSE IF b <= 244 /\ n >= 4
                 THEN mk_wcwidth((b % 8) * 262144 + c1 * 4096 + c2 * 64 + c3)
            ELSE 1

\* char_column_width(s + p, n), not on Windows
char_column_width(s, p, n, junk) ==
    IF IsNull(s) \/ n <= 0 THEN 0
    ELSE IF Rd(s, p, junk) < 32 THEN 0
    ELSE utf8_char_width(s, p, n, junk)

(***************************************************************************)
(* Navigation: the previous and the next display unit.                     *)
(***************************************************************************)
IsFollower(u) == u >= 128 /\ u <= 191

\* a backward scan that steps over no follower byte
prev_scan_one(s, pos, ofs, junk) == ofs

RECURSIVE prev_scan(_, _, _, _)
prev_scan(s, pos, ofs, junk) ==
    IF pos > ofs /\ IsFollower(Rd(s, pos - ofs, junk))
    THEN prev_scan(s, pos, ofs + 1, junk)
    ELSE ofs

\* str_prev_ofs(s, pos, &width)
str_prev_ofs(s, pos, junk) ==
    LET ofs == IF ~IsNull(s) /\ pos > 0 THEN prev_scan(s, pos, 1, junk) ELSE 0
    IN [ofs |-> ofs, width |-> char_column_width(s, pos - ofs, ofs, junk)]

RECURSIVE csi_scan(_, _, _, _, _, _)
csi_scan(s, p, len, n, intermediate, junk) ==
    IF len > n
    THEN LET c == Rd(s, p + n, junk)
         IN IF c >= 48 /\ c <= 63
            THEN (IF intermediate THEN [ok |-> FALSE, esclen |-> 0]
                  ELSE csi_scan(s, p, len, n + 1, intermediate, junk))
            ELSE IF c >= 32 /\ c <= 47 THEN csi_scan(s, p, len, n + 1, TRUE, junk)
            ELSE IF c >= 64 /\ c <= 126 THEN [ok |-> TRUE, esclen |-> n + 1]
            ELSE [ok |-> FALSE, esclen |-> 0]
    ELSE [ok |-> FALSE, esclen |-> 0]

\* skip_csi_esc that recognises no escape sequence
skip_csi_esc_never(s, p, len, junk) == [ok |-> FALSE, esclen |-> 0]

\* skip_csi_esc without the test len < 2
skip_csi_esc_nolen(s, p, len, junk) ==
    IF IsNull(s) \/ Rd(s, p, junk) # ESC
    THEN [ok |-> FALSE, esclen |-> 0]
    ELSE IF Rd(s, p + 1, junk) \in {91, 93}
    THEN csi_scan(s, p, len, 2, FALSE, junk)
    ELSE [ok |-> TRUE, esclen |-> 2]

\* skip_csi_esc(s + p, len, &esclen)
skip_csi_esc(s, p, len, junk) ==
    IF IsNull(s) \/ len < 2 \/ Rd(s, p, junk) # ESC
    THEN [ok |-> FALSE, esclen |-> 0]
    ELSE IF Rd(s, p + 1, junk) \in {91, 93}
    THEN csi_scan(s, p, len, 2, FALSE, junk)
    ELSE [ok |-> TRUE, esclen |-> 2]

RECURSIVE next_scan(_, _, _, _, _)
next_scan(s, len, pos, ofs, junk) ==
    IF len > pos + ofs /\ IsFollower(Rd(s, pos + ofs, junk))
    THEN next_scan(s, len, pos, ofs + 1, junk)
    ELSE ofs

\* str_next_ofs(s, len, pos, &cwidth)
str_next_ofs(s, len, pos, junk) ==
    LET e   == skip_csi_esc(s, pos, len - pos, junk)
        ofs == IF ~IsNull(s) /\ len > pos
               THEN (IF e.ok THEN e.esclen ELSE next_scan(s, len, pos, 1, junk))
               ELSE 0
    IN [ofs |-> ofs, width |-> char_column_width(s, pos, ofs, junk)]

\* str_limit_to_length(s, n): the first i < n with s[i] = 0, else n
str_limit_to_length(s, n) ==
    LET zeros == {i \in 0..(n - 1) : s[i + 1] = 0}
    IN IF n <= 0 THEN 0
       ELSE IF zeros = {} THEN n
       ELSE CHOOSE i \in zeros : \A j \in zeros : i <= j

(***************************************************************************)
(* Row layout: str_for_each_row.  The visitor is given by the row at which *)
(* it returns true (stop); a negative stopRow is a visitor that never      *)
(* stops.  The result holds the rows delivered, in order, and the value    *)
(* returned.                                                               *)
(***************************************************************************)
Row(row, start, len, wrap) ==
    [row |-> row, start |-> start, len |-> len, is_wrap |-> wrap]

\* a wrap test that ignores termw = 0
wraps_any_termw(termw, i, termcol) == i # 0 /\ termcol > termw

\* the test for a soft wrap before the unit at i
wraps(termw, i, termcol) == termw # 0 /\ i # 0 /\ termcol > termw

\* a row after a newline that starts at the newline
start_after_newline_same(i) == i

\* the start of the row after the newline at i
start_after_newline(i) == i + 1

RECURSIVE row_loop(_, _, _, _, _)
row_loop(s, len, L, stopRow, st) ==
    LET nx == str_next_ofs(s, len, st.i, 0)
        final == Append(st.rows, Row(st.rcount, st.rstart, st.i - st.rstart, FALSE))
    IN IF st.i < len /\ nx.ofs > 0
       THEN LET termcol == st.rcol + nx.width
                             + (IF st.rcount = 0 THEN L.promptw ELSE L.cpromptw) + 1
                wrap == wraps(L.termw, st.i, termcol)
                \* after the soft wrap, if any
                rows1   == IF wrap
                           THEN Append(st.rows,
                                       Row(st.rcount, st.rstart, st.i - st.rstart, TRUE))
                           ELSE st.rows
                rcount1 == IF wrap THEN st.rcount + 1 ELSE st.rcount
                rstart1 == IF wrap THEN st.i ELSE st.rstart
                rcol1   == IF wrap THEN 0 ELSE st.rcol
                newline == Rd(s, st.i, 0) = NL
                \* after the hard break, if any
                rows2   == IF newline
                           THEN Append(rows1, Row(rcount1, rstart1, st.i - rstart1, FALSE))
                           ELSE rows1
                rcount2 == IF newline THEN rcount1 + 1 ELSE rcount1
                rstart2 == IF newline THEN start_after_newline(st.i) ELSE rstart1
                rcol2   == IF newline THEN 0 ELSE rcol1
            IN IF wrap /\ st.rcount = stopRow
               THEN [rows |-> rows1, ret |-> st.rcount]
               ELSE IF newline /\ rcount1 = stopRow
               THEN [rows |-> rows2, ret |-> rcount1]
               ELSE row_loop(s, len, L, stopRow,
                             [i |-> st.i + nx.ofs, rcount |-> rcount2,
                              rcol |-> rcol2 + nx.width, rstart |-> rstart2,
                              rows |-> rows2])
       ELSE IF st.rcount = stopRow
       THEN [rows |-> final, ret |-> st.rcount]
       ELSE [rows |-> final, ret |-> st.rcount + 1]

\* str_for_each_row(s, len, termw, promptw, cpromptw, fun, arg, res)
str_for_each_row(s, len, L, stopRow) ==
    row_loop(s, len, L, stopRow,
             [i |-> 0, rcount |-> 0, rcol |-> 0, rstart |-> 0, rows |-> <<>>])

(***************************************************************************)
(* The string buffer.  sb = [buf, buflen, count]; ok is whether the         *)
(* allocator serves a reallocation, should the call need one.              *)
(***************************************************************************)
\* the bytes [0, count) of a buffer
ContentOf(sb) == [i \in 1..sb.count |-> Rd(sb.buf, i - 1, Uninit)]

\* sbuf_init
sbuf_init == [buf |-> <<>>, buflen |-> 0, count |-> 0]

\* mem_realloc to n cells: the old cells are kept, the new ones are not written
mem_realloc(b, n) == [j \in {i \in DOMAIN b : i < n} |-> b[j]]

sbuf_ensure_extra(sb, extra, ok) ==
    IF sb.buflen >= sb.count + extra THEN [ok |-> TRUE, sb |-> sb, fail |-> FALSE]
    ELSE LET dbl    == IF sb.buflen = 0 THEN InitialCap ELSE 2 * sb.buflen
             newlen == IF dbl <= sb.count + extra THEN sb.count + extra ELSE dbl
             newbuf == mem_realloc(sb.buf, newlen + 1)
         IN IF ~ok THEN [ok |-> FALSE, sb |-> sb, fail |-> TRUE]
            ELSE [ok   |-> TRUE,
                  sb   |-> [buf    |-> Wr(Wr(newbuf, newlen, 0), sb.count, 0),
                            buflen |-> newlen,
                            count  |-> sb.count],
                  fail |-> FALSE]

\* vsnprintf(dst, avail, ...) of the text: what it writes at dst, and what it returns
vsnprintf(avail, text) ==
    [written |-> IF avail <= 0 THEN <<>>
                 ELSE IF Len(text) < avail THEN Append(text, 0)
                 ELSE Append(SubSeq(text, 1, avail - 1), 0),
     needed  |-> Len(text)]

\* sbuf_append_vprintf(sb, max_needed, fmt, args); text is the formatted text
sbuf_append_vprintf(sb, max_needed, text, ok) ==
    LET e == sbuf_ensure_extra(sb, max_needed, ok)
    IN IF ~e.ok THEN [sb |-> sb, ret |-> sb.count, fail |-> TRUE, crash |-> FALSE]
       ELSE LET avail == e.sb.buflen - e.sb.count
                p     == vsnprintf(avail, text)
                b1    == rp_memcpy(e.sb.buf, e.sb.count, p.written, Len(p.written))
                cnt   == e.sb.count + (IF p.needed > avail THEN avail
                                       ELSE IF p.needed >= 0 THEN p.needed ELSE 0)
            IN IF IsNull(e.sb.buf)
               THEN [sb |-> sb, ret |-> sb.count, fail |-> FALSE, crash |-> TRUE]
               ELSE [sb    |-> [buf |-> Wr(b1, cnt, 0), buflen |-> e.sb.buflen,
                                count |-> cnt],
                     ret   |-> cnt,
                     fail  |-> FALSE,
                     crash |-> FALSE]

\* sbuf_insert_at_n that copies the bytes in without moving the tail out of the way
sbuf_insert_at_n_noshift(sb, s, n, pos, ok) ==
    IF pos < 0 \/ pos > sb.count THEN [sb |-> sb, ret |-> pos, fail |-> FALSE]
    ELSE LET m == str_limit_to_length(s, n)
             e == sbuf_ensure_extra(sb, m, ok)
         IN IF m <= 0 THEN [sb |-> sb, ret |-> pos, fail |-> FALSE]
            ELSE IF ~e.ok THEN [sb |-> sb, ret |-> pos, fail |-> TRUE]
            ELSE [sb   |-> [buf    |-> Wr(rp_memcpy(e.sb.buf, pos, s, m), sb.count + m, 0),
                            buflen |-> e.sb.buflen,
                            count  |-> sb.count + m],
                  ret  |-> pos + m,
                  fail |-> FALSE]

\* sbuf_insert_at_n(sbuf, s, n, pos)
sbuf_insert_at_n(sb, s, n, pos, ok) ==
    IF pos < 0 \/ pos > sb.count THEN [sb |-> sb, ret |-> pos, fail |-> FALSE]
    ELSE LET m == str_limit_to_length(s, n)
             e == sbuf_ensure_extra(sb, m, ok)
         IN IF m <= 0 THEN [sb |-> sb, ret |-> pos, fail |-> FALSE]
            ELSE IF ~e.ok THEN [sb |-> sb, ret |-> pos, fail |-> TRUE]
            ELSE LET b1 == rp_memmove(e.sb.buf, pos + m, pos, sb.count - pos, 0)
                     b2 == rp_memcpy(b1, pos, s, m)
                 IN [sb   |-> [buf    |-> Wr(b2, sb.count + m, 0),
                               buflen |-> e.sb.buflen,
                               count  |-> sb.count + m],
                     ret  |-> pos + m,
                     fail |-> FALSE]

\* rp_strlen of a C string given by its cells
rp_strlen(s) == str_limit_to_length(s, Len(s))

\* sbuf_insert_at(sbuf, s, pos)
sbuf_insert_at(sb, s, pos, ok) == sbuf_insert_at_n(sb, s, rp_strlen(s), pos, ok)

\* sbuf_delete_at that does not write the terminating 0 again
sbuf_delete_at_noterm(sb, pos, cnt, junk) ==
    IF pos < 0 \/ pos >= sb.count THEN sb
    ELSE LET c  == IF pos + cnt > sb.count THEN sb.count - pos ELSE cnt
         IN [buf |-> rp_memmove(sb.buf, pos, pos + c, sb.count - pos - c, junk),
             buflen |-> sb.buflen, count |-> sb.count - c]

\* sbuf_delete_at(sbuf, pos, count)
sbuf_delete_at(sb, pos, cnt, junk) ==
    IF pos < 0 \/ pos >= sb.count THEN sb
    ELSE LET c  == IF pos + cnt > sb.count THEN sb.count - pos ELSE cnt
             b1 == rp_memmove(sb.buf, pos, pos + c, sb.count - pos - c, junk)
         IN [buf |-> Wr(b1, sb.count - c, 0), buflen |-> sb.buflen,
             count |-> sb.count - c]

\* sbuf_delete_from_to(sbuf, pos, end)
sbuf_delete_from_to(sb, pos, end) ==
    IF end <= pos THEN sb ELSE sbuf_delete_at(sb, pos, end - pos, 0)

\* sbuf_delete_from(sbuf, pos)
sbuf_delete_from(sb, pos) == sbuf_delete_at(sb, pos, sb.count - pos, 0)

\* sbuf_clear(sbuf)
sbuf_clear(sb) == sbuf_delete_at(sb, 0, sb.count, 0)

\* sbuf_append_n(sbuf, s, n)
sbuf_append_n(sb, s, n, ok) == sbuf_insert_at_n(sb, s, n, sb.count, ok)

\* sbuf_append(sbuf, s)
sbuf_append(sb, s, ok) == sbuf_insert_at(sb, s, sb.count, ok)

\* sbuf_replace(sbuf, s)
sbuf_replace(sb, s, ok) == sbuf_append(sbuf_clear(sb), s, ok)

\* sbuf_next_ofs(sbuf, pos, &cwidth)
sbuf_next_ofs(sb, pos, junk) == str_next_ofs(sb.buf, sb.count, pos, junk)

\* sbuf_prev_ofs(sbuf, pos, &cwidth)
sbuf_prev_ofs(sb, pos, junk) == str_prev_ofs(sb.buf, pos, junk)

\* sbuf_next(sbuf, pos, &cwidth): the position, or -1
sbuf_next(sb, pos, junk) ==
    LET r == sbuf_next_ofs(sb, pos, junk)
    IN [pos |-> IF r.ofs <= 0 THEN -1 ELSE pos + r.ofs, ofs |-> r.ofs, width |-> r.width]

\* sbuf_prev(sbuf, pos, &cwidth): the position, or -1
sbuf_prev(sb, pos, junk) ==
    LET r == sbuf_prev_ofs(sb, pos, junk)
    IN [pos |-> IF r.ofs <= 0 THEN -1 ELSE pos - r.ofs, ofs |-> r.ofs, width |-> r.width]

\* sbuf_delete_char_before(sbuf, pos)
sbuf_delete_char_before(sb, pos, junk) ==
    LET n == sbuf_prev_ofs(sb, pos, junk).ofs
    IN IF n <= 0 THEN [sb |-> sb, ret |-> 0]
       ELSE [sb |-> sbuf_delete_at(sb, pos - n, n, junk), ret |-> pos - n]

\* sbuf_delete_char_at(sbuf, pos)
sbuf_delete_char_at(sb, pos, junk) ==
    LET n == sbuf_next_ofs(sb, pos, junk).ofs
    IN IF n <= 0 THEN sb ELSE sbuf_delete_at(sb, pos, n, junk)

\* sbuf_swap_char(sbuf, pos)
sbuf_swap_char(sb, pos, junk) ==
    LET next == sbuf_next_ofs(sb, pos, junk).ofs
        prev == sbuf_prev_ofs(sb, pos, junk).ofs
        tmp  == [i \in 1..prev |-> Rd(sb.buf, pos - prev + i - 1, junk)]
        b1   == rp_memmove(sb.buf, pos - prev, pos, next, junk)
        b2   == rp_memcpy(b1, pos - prev + next, tmp, prev)
    IN IF next <= 0 THEN [sb |-> sb, ret |-> 0]
       ELSE IF prev <= 0 THEN [sb |-> sb, ret |-> 0]
       ELSE IF prev >= SwapLimit THEN [sb |-> sb, ret |-> 0]
       ELSE [sb |-> [sb EXCEPT !.buf = b2], ret |-> pos - prev]

(***************************************************************************)
(* The state: one string buffer, and the caller's position: idle, or back  *)
(* from a call with its record in last.  last.pre and last.precap are the  *)
(* content and the capacity before the call; last.fail says that the call  *)
(* asked for a reallocation and was refused.  The buffer has one owner and *)
(* no call overlaps another: a call starts only from idle.                 *)
(***************************************************************************)
SB == [buf |-> buf, buflen |-> buflen, count |-> count]

Content == ContentOf(SB)

Set(sb) == buf' = sb.buf /\ buflen' = sb.buflen /\ count' = sb.count

Log(op, pos, n, src, fail, ret) ==
    /\ last' = [op |-> op, pos |-> pos, n |-> n, src |-> src, fail |-> fail,
                ret |-> ret, pre |-> Content, precap |-> buflen]
    /\ UNCHANGED wc

NoCall ==
    [op |-> "idle", pos |-> 0, n |-> 0, src |-> <<>>, fail |-> FALSE,
     ret |-> 0, pre |-> <<>>, precap |-> 0]

\* the caller is between two calls; a write through a NULL pointer ends the
\* process (last.op = "crash"), and no call follows it
Alive == last.op = "idle"

\* sbuf_new: an empty buffer without storage
Init ==
    /\ buf = sbuf_init.buf
    /\ buflen = sbuf_init.buflen
    /\ count = sbuf_init.count
    /\ wc \in Widths
    /\ last = NoCall

\* the caller takes the result of the call
Return ==
    /\ last.op \notin {"idle", "crash"}
    /\ last' = NoCall
    /\ UNCHANGED <<buf, buflen, count, wc>>

\* the allocator's answer matters only to a call that reallocates
Asked(ok, r) == ok \/ r.fail

InsertAtN(src, pos, ok, max) ==
    LET r == sbuf_insert_at_n(SB, src, Len(src), pos, ok)
    IN /\ Alive
       /\ Asked(ok, r)
       /\ r.sb.count <= max
       /\ Set(r.sb)
       /\ Log("insert", pos, Len(src), src, r.fail, r.ret)

AppendN(src, ok, max) ==
    LET r == sbuf_append_n(SB, src, Len(src), ok)
    IN /\ Alive
       /\ Asked(ok, r)
       /\ r.sb.count <= max
       /\ Set(r.sb)
       /\ Log("append", count, Len(src), src, r.fail, r.ret)

AppendFormatted(text, max_needed, ok, max) ==
    LET r == sbuf_append_vprintf(SB, max_needed, text, ok)
    IN /\ Alive
       /\ Asked(ok, r)
       /\ r.sb.count <= max
       /\ Set(r.sb)
       /\ Log(IF r.crash THEN "crash" ELSE "appendf", count, max_needed, text,
              r.fail, r.ret)

DeleteAt(pos, cnt, junk, max) ==
    LET guard == pos < 0 \/ pos >= count \/ count - cnt <= max
        sb    == sbuf_delete_at(SB, pos, cnt, junk)
    IN /\ Alive
       /\ guard
       /\ Set(sb)
       /\ Log("delete", pos, cnt, <<>>, FALSE, 0)

DeleteFromTo(pos, end) ==
    /\ Alive
    /\ Set(sbuf_delete_from_to(SB, pos, end))
    /\ Log("delete_from_to", pos, end, <<>>, FALSE, 0)

DeleteFrom(pos) ==
    /\ Alive
    /\ Set(sbuf_delete_from(SB, pos))
    /\ Log("delete_from", pos, 0, <<>>, FALSE, 0)

Clear ==
    /\ Alive
    /\ Set(sbuf_clear(SB))
    /\ Log("clear", 0, 0, <<>>, FALSE, 0)

Replace(src, ok, max) ==
    LET r == sbuf_replace(SB, src, ok)
    IN /\ Alive
       /\ Asked(ok, r)
       /\ r.sb.count <= max
       /\ Set(r.sb)
       /\ Log("replace", 0, Len(src), src, r.fail, 0)

DeleteCharBefore(pos, junk) ==
    LET r == sbuf_delete_char_before(SB, pos, junk)
    IN /\ Alive
       /\ Set(r.sb)
       /\ Log("delete_char_before", pos, 0, <<>>, FALSE, r.ret)

DeleteCharAt(pos, junk) ==
    /\ Alive
    /\ Set(sbuf_delete_char_at(SB, pos, junk))
    /\ Log("delete_char_at", pos, 0, <<>>, FALSE, 0)

SwapChar(pos, junk) ==
    LET r == sbuf_swap_char(SB, pos, junk)
    IN /\ Alive
       /\ Set(r.sb)
       /\ Log("swap_char", pos, 0, <<>>, FALSE, r.ret)

(***************************************************************************)
(* Spec: every mutation, with any position and non-negative counts.        *)
(***************************************************************************)
\* the source strings: n cells each, a 0 among them ends the string early
Srcs == {<<>>, <<97>>, <<195, 129>>, <<97, 0, 97>>}

\* the formatted texts
Texts == {<<>>, <<97>>, <<97, 97>>}

\* the max_needed of a formatted append: small, and more than the first capacity
Needs == {0, 1, 2, InitialCap + 1}

\* every position of the content, and one past it on either side
Pos == (0 - 1)..(count + 1)

\* every count up to the length, and one more
Cnt == 0..(count + 1)

\* what a read outside the content may find
Junk == {0, 129}

JunkAt(pos) == IF pos >= 0 /\ pos <= count THEN {0} ELSE Junk

Next ==
    \/ \E src \in Srcs, pos \in Pos, ok \in BOOLEAN : InsertAtN(src, pos, ok, MaxLen)
    \/ \E src \in Srcs, ok \in BOOLEAN : AppendN(src, ok, MaxLen)
    \/ \E text \in Texts, m \in Needs, ok \in BOOLEAN :
          AppendFormatted(text, m, ok, MaxLen)
    \/ \E pos \in Pos, cnt \in Cnt : DeleteAt(pos, cnt, 0, MaxLen)
    \/ \E pos \in Pos, end \in Cnt : DeleteFromTo(pos, end)
    \/ \E pos \in Pos : DeleteFrom(pos)
    \/ Clear
    \/ \E src \in Srcs, ok \in BOOLEAN : Replace(src, ok, MaxLen)
    \/ \E pos \in Pos : \E junk \in JunkAt(pos) : DeleteCharBefore(pos, junk)
    \/ \E pos \in Pos : \E junk \in JunkAt(pos) : DeleteCharAt(pos, junk)
    \/ \E pos \in Pos : \E junk \in JunkAt(pos) : SwapChar(pos, junk)
    \/ Return

Spec == Init /\ [][Next]_vars

(***************************************************************************)
(* SpecAny: Spec, and sbuf_delete_at with negative counts as well.  A       *)
(* negative count makes memmove read from before pos, and from before the  *)
(* storage when pos + count < 0.                                           *)
(***************************************************************************)
NegCnt == {0 - 2, 0 - 1}

NextAny ==
    \/ Next
    \/ \E pos \in Pos, cnt \in NegCnt :
          \E junk \in (IF pos + cnt < 0 THEN Junk ELSE {0}) :
             DeleteAt(pos, cnt, junk, MaxLen)

SpecAny == Init /\ [][NextAny]_vars

(***************************************************************************)
(* Properties of the mutations.                                            *)
(***************************************************************************)
Cat3(a, b, c) == a \o b \o c

From(s, i) == SubSeq(s, i + 1, Len(s))

UpTo(s, i) == SubSeq(s, 1, i)

Mutations ==
    {"insert", "append", "appendf", "delete", "delete_from_to", "delete_from",
     "clear", "replace", "delete_char_before", "delete_char_at", "swap_char"}

\* C1: from a fresh buffer, after any sequence of mutations with any positions
\* and non-negative counts, count <= buflen, and once storage is allocated
\* buf[count] = 0.
C1_Invariant ==
    /\ 0 <= count
    /\ count <= buflen
    /\ ~IsNull(buf) => Rd(buf, count, Uninit) = 0

\* a deletion inside a buffer with storage that left content behind
C1_Witness ==
    /\ last.op = "delete"
    /\ last.pos < Len(last.pre)
    /\ last.n >= 1
    /\ count >= 1
    /\ count < Len(last.pre)
    /\ ~IsNull(buf)

\* C3: insert(pos, bytes, n) with 0 <= pos <= length, n >= 1 bytes none of
\* which is 0 and successful growth gives old[0,pos) ++ bytes ++ old[pos,length),
\* length + n, and returns pos + n; with pos outside [0, length] it returns pos
\* and changes nothing.
C3_Insert ==
    last.op = "insert" =>
        LET old == last.pre
            pos == last.pos
            n   == last.n
        IN /\ (/\ pos >= 0
               /\ pos <= Len(old)
               /\ n >= 1
               /\ \A i \in 1..n : last.src[i] # 0
               /\ ~last.fail)
              => /\ Content = Cat3(UpTo(old, pos), last.src, From(old, pos))
                 /\ count = Len(old) + n
                 /\ last.ret = pos + n
           /\ (pos < 0 \/ pos > Len(old))
              => /\ Content = old
                 /\ count = Len(old)
                 /\ buflen = last.precap
                 /\ last.ret = pos

\* bytes inserted strictly inside the content
C3_Witness ==
    /\ last.op = "insert"
    /\ last.pos > 0
    /\ last.pos < Len(last.pre)
    /\ last.n >= 1
    /\ ~last.fail
    /\ count = Len(last.pre) + last.n

\* C4: delete(pos, count), for every integer pos and count: 0 <= new length <=
\* old length; pos outside [0, length) changes nothing; otherwise exactly the
\* bytes [pos, pos + min(count, length - pos)) are removed.
C4_Delete ==
    last.op = "delete" =>
        LET old == last.pre
            pos == last.pos
            c   == IF last.n < Len(old) - pos THEN last.n ELSE Len(old) - pos
        IN /\ 0 <= count
           /\ count <= Len(old)
           /\ (pos < 0 \/ pos >= Len(old)) => Content = old
           /\ (pos >= 0 /\ pos < Len(old))
              => Content = UpTo(old, pos) \o From(old, pos + c)

(***************************************************************************)
(* SpecLong: the calls that grow the buffer, with strings as long as the   *)
(* first capacity, so that a buffer holding content has to reallocate.     *)
(***************************************************************************)
LongLens == {InitialCap - 1, InitialCap, InitialCap + 1}

LongSrcs == {Rep(97, k) : k \in LongLens}

LongPos == {0, count}

NextLong ==
    \/ \E src \in LongSrcs, pos \in LongPos, ok \in BOOLEAN :
          InsertAtN(src, pos, ok, MaxLong)
    \/ \E src \in LongSrcs, ok \in BOOLEAN : AppendN(src, ok, MaxLong)
    \/ \E text \in LongSrcs, m \in LongLens, ok \in BOOLEAN :
          AppendFormatted(text, m, ok, MaxLong)
    \/ \E src \in LongSrcs, ok \in BOOLEAN : Replace(src, ok, MaxLong)
    \/ Clear
    \/ Return

SpecLong == Init /\ [][NextLong]_vars

\* C2: when the reallocation a mutation asks for fails, the content, the
\* length and the capacity after insert, append, append_formatted and replace
\* are those before the call.
C2_FailedGrowth ==
    (last.op \in {"insert", "append", "appendf", "replace"} /\ last.fail)
        => /\ Content = last.pre
           /\ count = Len(last.pre)
           /\ buflen = last.precap

\* C6: append_formatted(fmt, max_needed) of a text of k <= max_needed bytes
\* appends exactly the text; only a text longer than max_needed is truncated,
\* and then to a prefix of the text; the length never exceeds the capacity.
C6_AppendFormatted ==
    (last.op = "appendf" /\ ~last.fail)
        => LET old  == last.pre
               text == last.src
               k    == Len(text)
           IN /\ k <= last.n => Content = old \o text
              /\ k > last.n => \E j \in 0..k : Content = old \o UpTo(text, j)
              /\ count <= buflen

(***************************************************************************)
(* SpecEdit: a buffer built by appending whole display units, and the      *)
(* deletion of the unit before or at a position.                           *)
(***************************************************************************)
\* 'a'; U+00C1 in two bytes; the CSI sequence ESC [ a; the escape ESC 7
UnitSet == {<<97>>, <<195, 129>>, <<ESC, 91, 97>>, <<ESC, 55>>}

NextEdit ==
    \/ \E u \in UnitSet, ok \in BOOLEAN : AppendN(u, ok, MaxEdit)
    \/ \E pos \in Pos : \E junk \in JunkAt(pos) : DeleteCharBefore(pos, junk)
    \/ \E pos \in Pos : \E junk \in JunkAt(pos) : DeleteCharAt(pos, junk)
    \/ Return

SpecEdit == Init /\ [][NextEdit]_vars

RECURSIVE IsUnits(_)
\* s is a concatenation of display units
IsUnits(s) ==
    \/ s = <<>>
    \/ \E u \in UnitSet :
          /\ Len(u) <= Len(s)
          /\ UpTo(s, Len(u)) = u
          /\ IsUnits(From(s, Len(u)))

\* p is between two display units of s, or at an end of s
OnBoundary(s, p) ==
    /\ p >= 0
    /\ p <= Len(s)
    /\ IsUnits(UpTo(s, p))
    /\ IsUnits(From(s, p))

IsEscUnit(u) == u[1] = ESC

\* the display unit of s that ends at p, <<>> when p = 0
UnitBefore(s, p) ==
    IF p = 0 THEN <<>>
    ELSE CHOOSE u \in UnitSet :
            Len(u) <= p /\ SubSeq(s, p - Len(u) + 1, p) = u /\ IsUnits(UpTo(s, p - Len(u)))

\* the display unit of s that starts at p, <<>> when p = Len(s)
UnitAt(s, p) ==
    IF p = Len(s) THEN <<>>
    ELSE CHOOSE u \in UnitSet : Len(u) <= Len(s) - p /\ SubSeq(s, p + 1, p + Len(u)) = u

\* s without its bytes [from, to)
Without(s, from, to) == UpTo(s, from) \o From(s, to)

\* C5 as stated: on a buffer of whole display units and a position between
\* two of them, delete_unit_before and delete_unit_at remove exactly one whole
\* unit next to the position, so that whole units remain.
C5_DeleteUnit_AsStated ==
    (/\ last.op \in {"delete_char_before", "delete_char_at"}
     /\ IsUnits(last.pre)
     /\ OnBoundary(last.pre, last.pos))
        => LET old == last.pre
               pos == last.pos
           IN /\ IsUnits(Content)
              /\ last.op = "delete_char_before"
                 => Content = Without(old, pos - Len(UnitBefore(old, pos)), pos)
              /\ last.op = "delete_char_at"
                 => Content = Without(old, pos, pos + Len(UnitAt(old, pos)))

\* C5 as amended: delete_unit_at removes exactly the whole unit that starts at
\* the position; delete_unit_before removes exactly the whole code point that
\* ends at the position, and of an escape sequence that ends there only the
\* last byte.
C5_DeleteUnit ==
    (/\ last.op \in {"delete_char_before", "delete_char_at"}
     /\ IsUnits(last.pre)
     /\ OnBoundary(last.pre, last.pos))
        => LET old == last.pre
               pos == last.pos
               ub  == UnitBefore(old, pos)
           IN /\ last.op = "delete_char_at"
                 => /\ Content = Without(old, pos, pos + Len(UnitAt(old, pos)))
                    /\ IsUnits(Content)
              /\ (last.op = "delete_char_before" /\ (pos = 0 \/ ~IsEscUnit(ub)))
                 => /\ Content = Without(old, pos - Len(ub), pos)
                    /\ IsUnits(Content)
                    /\ last.ret = pos - Len(ub)
              /\ (last.op = "delete_char_before" /\ pos > 0 /\ IsEscUnit(ub))
                 => /\ Content = Without(old, pos - 1, pos)
                    /\ last.ret = pos - 1

\* an escape sequence in the middle of the content was deleted as a whole
C5_Witness ==
    /\ last.op = "delete_char_at"
    /\ IsUnits(last.pre)
    /\ OnBoundary(last.pre, last.pos)
    /\ last.pos > 0
    /\ last.pos < Len(last.pre)
    /\ IsEscUnit(UnitAt(last.pre, last.pos))
    /\ count = Len(last.pre) - Len(UnitAt(last.pre, last.pos))

(***************************************************************************)
(* SpecScan: a buffer of arbitrary bytes, well formed or not, scanned      *)
(* forward and backward and laid out in rows.                              *)
(***************************************************************************)
\* '\n', ESC, '[', 'a', a follower byte, the lead byte of a two-byte code point
ScanBytes == {NL, ESC, 91, 97, 129, 195}

\* no visitor stops the row walk
NeverStop == 0 - 1

\* sbuf_next(sbuf, pos, &cwidth)
SbufNext(pos) ==
    /\ Alive
    /\ Log("next", pos, 0, <<>>, FALSE, sbuf_next(SB, pos, 0))
    /\ UNCHANGED <<buf, buflen, count>>

\* sbuf_prev(sbuf, pos, &cwidth)
SbufPrev(pos) ==
    /\ Alive
    /\ Log("prev", pos, 0, <<>>, FALSE, sbuf_prev(SB, pos, 0))
    /\ UNCHANGED <<buf, buflen, count>>

\* str_for_each_row over the buffer with a visitor that records each row
ForEachRow(termw, promptw, cpromptw, stopRow) ==
    /\ Alive
    /\ LET L == [termw |-> termw, promptw |-> promptw, cpromptw |-> cpromptw]
           r == str_for_each_row(buf, count, L, stopRow)
       IN Log("rows", 0, 0, <<>>, FALSE,
              [termw |-> termw, promptw |-> promptw, cpromptw |-> cpromptw,
               stop |-> stopRow, rows |-> r.rows, ret |-> r.ret])
    /\ UNCHANGED <<buf, buflen, count>>

\* a buffer that holds any bytes of ScanBytes, appended to a new buffer
InitScan ==
    \E n \in 0..MaxScanLen : \E s \in [1..n -> ScanBytes] :
        LET sb == sbuf_append_n(sbuf_init, s, n, TRUE).sb
        IN /\ buf = sb.buf
           /\ buflen = sb.buflen
           /\ count = sb.count
           /\ wc \in Widths
           /\ last = NoCall

NextScan ==
    \/ \E pos \in 0..(count + 1) : SbufNext(pos)
    \/ \E pos \in 0..count : SbufPrev(pos)
    \/ \E termw \in 0..MaxTermW, promptw \in 0..1, cpromptw \in 0..1 :
          ForEachRow(termw, promptw, cpromptw, NeverStop)
    \/ Return

SpecScan == InitScan /\ [][NextScan]_vars

RECURSIVE Walk(_, _, _)
\* the position reached from pos by at most steps calls of sbuf_next_ofs
Walk(sb, pos, steps) ==
    IF steps = 0 \/ pos >= sb.count THEN pos
    ELSE Walk(sb, pos + sbuf_next_ofs(sb, pos, 0).ofs, steps - 1)

\* C7: the forward scan from a position before the end returns a length b
\* with 1 <= b <= len - pos, it returns 0 exactly when pos >= len, and
\* advancing by it from the position reaches len within len - pos steps.
C7_ForwardProgress ==
    last.op = "next"
        => LET pos == last.pos
               b   == last.ret.ofs
           IN /\ pos < count => (1 <= b /\ b <= count - pos)
              /\ (b = 0) <=> (pos >= count)
              /\ pos < count => Walk(SB, pos, count - pos) = count

\* a whole CSI sequence was scanned as one unit
C7_Witness ==
    /\ last.op = "next"
    /\ last.pos = 0
    /\ count = 3
    /\ last.ret.ofs = 3
    /\ Content = <<ESC, 91, 97>>

\* no byte of the content is ESC
NoEscByte == \A i \in 1..count : Content[i] # ESC

\* the forward scan recognises no escape sequence in the content
NoEscapeSequence ==
    \A q \in 0..(count - 1) : ~skip_csi_esc(buf, q, count - q, 0).ok

\* the backward scan from where the forward scan at last.pos ended gives the
\* length and the width that the forward scan gave
RoundTrip ==
    LET b == last.ret.ofs
        r == sbuf_prev_ofs(SB, last.pos + b, 0)
    IN r.ofs = b /\ r.width = last.ret.width

\* C8 as stated: in a buffer without escape sequences, for every position p
\* in [0, length], next_unit at p followed by prev_unit from where it ended
\* returns the same byte length and width.
C8_RoundTrip_AsStated ==
    (last.op = "next" /\ NoEscByte /\ last.pos >= 0 /\ last.pos <= count)
        => RoundTrip

\* C8 as amended: in a buffer without escape sequences, the round trip holds
\* for every position p in [0, length) that is 0 or not at a follower byte
\* (0x80..0xBF), and at p = length only in the empty buffer.
C8_RoundTrip ==
    (last.op = "next" /\ NoEscapeSequence /\ last.pos >= 0 /\ last.pos <= count)
        => LET p == last.pos
           IN /\ (p < count /\ (p = 0 \/ ~IsFollower(Content[p + 1]))) => RoundTrip
              /\ (p < count /\ p > 0 /\ IsFollower(Content[p + 1])) => ~RoundTrip
              /\ p = count => (RoundTrip <=> count = 0)

\* the round trip over a two-byte code point that is not at the start
C8_Witness ==
    /\ last.op = "next"
    /\ NoEscapeSequence
    /\ last.pos = 1
    /\ count = 3
    /\ last.ret.ofs = 2
    /\ last.ret.width = 2
    /\ RoundTrip

\* the number of '\n' bytes of s
Newlines(s) == Cardinality({i \in 1..Len(s) : s[i] = NL})

\* no '\n' byte of s comes right after an ESC byte
NoEscNewline(s) == \A i \in 1..(Len(s) - 1) : ~(s[i] = ESC /\ s[i + 1] = NL)

\* C9 as stated: with termw = 0 the layout of any content has exactly
\* 1 + (number of '\n' bytes) rows and no soft-wrap row.
C9_Unbounded_AsStated ==
    (last.op = "rows" /\ last.ret.termw = 0)
        => /\ Len(last.ret.rows) = 1 + Newlines(Content)
           /\ last.ret.ret = 1 + Newlines(Content)
           /\ \A k \in 1..Len(last.ret.rows) : ~last.ret.rows[k].is_wrap

\* C9 as amended: with termw = 0 the layout never has a soft-wrap row, and
\* when no '\n' byte comes right after an ESC byte it has exactly
\* 1 + (number of '\n' bytes) rows.
C9_Unbounded ==
    (last.op = "rows" /\ last.ret.termw = 0)
        => /\ \A k \in 1..Len(last.ret.rows) : ~last.ret.rows[k].is_wrap
           /\ NoEscNewline(Content)
              => /\ Len(last.ret.rows) = 1 + Newlines(Content)
                 /\ last.ret.ret = 1 + Newlines(Content)

\* unbounded width, a prompt, and content with two newlines: three rows
C9_Witness ==
    /\ last.op = "rows"
    /\ last.ret.termw = 0
    /\ last.ret.promptw = 1
    /\ count = 3
    /\ Newlines(Content) = 2
    /\ Len(last.ret.rows) = 3

\* row k of rows ended by a hard break: it is not a soft wrap and not the last
HardBreak(rows, k) == k < Len(rows) /\ ~rows[k].is_wrap

RECURSIVE SumLen(_, _)
\* the byte lengths of the first k rows and their hard breaks
SumLen(rows, k) ==
    IF k = 0 THEN 0
    ELSE SumLen(rows, k - 1) + rows[k].len + (IF HardBreak(rows, k) THEN 1 ELSE 0)

\* C10: the rows given to a visitor that never stops tile the buffer: row 0
\* starts at 0, each next row starts at the start of the one before plus its
\* length plus 1 after a hard break, and the lengths and the hard breaks add
\* up to the length of the buffer.
C10_RowsTile ==
    (last.op = "rows" /\ last.ret.stop = NeverStop)
        => LET rows == last.ret.rows
           IN /\ Len(rows) >= 1
              /\ rows[1].start = 0
              /\ \A k \in 1..(Len(rows) - 1) :
                    /\ rows[k + 1].start
                         = rows[k].start + rows[k].len
                             + (IF HardBreak(rows, k) THEN 1 ELSE 0)
                    /\ rows[k + 1].row = rows[k].row + 1
                    /\ rows[k].len >= 0
              /\ ~rows[Len(rows)].is_wrap
              /\ SumLen(rows, Len(rows)) = count

\* a layout with a soft wrap and a hard break
C10_Witness ==
    /\ last.op = "rows"
    /\ last.ret.stop = NeverStop
    /\ count = 3
    /\ Len(last.ret.rows) = 3
    /\ last.ret.rows[1].is_wrap
    /\ HardBreak(last.ret.rows, 2)
    /\ last.ret.rows[3].len = 1

(***************************************************************************)
(* SpecStop: the row walk with a visitor that stops at a row, or never.    *)
(***************************************************************************)
\* the rows at which a visitor asks to stop
StopRows == 0..MaxScanLen

NextStop ==
    \/ \E termw \in 0..MaxTermW, promptw \in 0..1, cpromptw \in 0..1,
          stopRow \in StopRows \cup {NeverStop} :
          ForEachRow(termw, promptw, cpromptw, stopRow)
    \/ Return

SpecStop == InitScan /\ [][NextStop]_vars

\* what the row walk of the buffer returns when the visitor never stops
TotalRows(termw, promptw, cpromptw) ==
    str_for_each_row(buf, count,
                     [termw |-> termw, promptw |-> promptw, cpromptw |-> cpromptw],
                     NeverStop).ret

\* C11: the row walk returns the total row count of the layout whether the
\* visitor stops or not: its result with a visitor that stops at some row is
\* its result with a visitor that never stops, and is at least 1.
C11_TotalRows ==
    last.op = "rows"
        => /\ last.ret.ret >= 1
           /\ last.ret.ret = TotalRows(last.ret.termw, last.ret.promptw,
                                       last.ret.cpromptw)

(***************************************************************************)
(* Row and column of a position, and the position of a row and column.     *)
(***************************************************************************)
RECURSIVE column_width_loop(_, _, _, _, _)
\* the while loop of str_column_width_n over s + p
column_width_loop(s, p, len, pos, cwidth) ==
    LET nx == str_next_ofs(s, p + len, p + pos, 0)
    IN IF Rd(s, p + pos, 0) # 0 /\ nx.ofs > 0
       THEN column_width_loop(s, p, len, pos + nx.ofs, cwidth + nx.width)
       ELSE cwidth

\* a column width that counts bytes
str_column_width_n_bytes(s, p, len) == IF len <= 0 THEN 0 ELSE len

\* str_column_width_n(s + p, len)
str_column_width_n(s, p, len) ==
    IF len <= 0 THEN 0 ELSE column_width_loop(s, p, len, 0, 0)

\* a rowcol_t that no visitor call has filled in
NoRowCol ==
    [found |-> FALSE, row |-> 0, col |-> 0, row_start |-> 0, row_len |-> 0,
     first_on_row |-> FALSE, last_on_row |-> FALSE]

\* str_get_current_pos_iter on the row r with arg = pos: the rowcol_t after it
str_get_current_pos_iter(s, r, pos, rc) ==
    IF pos >= r.start /\ pos <= r.start + r.len
    THEN [found        |-> TRUE,
          row          |-> r.row,
          col          |-> str_column_width_n(s, r.start, pos - r.start),
          row_start    |-> r.start,
          row_len      |-> r.len,
          first_on_row |-> pos = r.start,
          last_on_row  |-> pos = r.start + r.len]
    ELSE rc

RECURSIVE current_pos_rows(_, _, _, _, _)
\* the visitor str_get_current_pos_iter called on rows[k..], none of which stops
current_pos_rows(s, rows, k, pos, rc) ==
    IF k > Len(rows) THEN rc
    ELSE current_pos_rows(s, rows, k + 1, pos,
                          str_get_current_pos_iter(s, rows[k], pos, rc))

\* str_get_rc_at_pos(s, len, termw, promptw, cpromptw, pos, rc)
str_get_rc_at_pos(s, len, L, pos) ==
    LET w == str_for_each_row(s, len, L, 0 - 1)
    IN [rc |-> current_pos_rows(s, w.rows, 1, pos, NoRowCol), rows |-> w.ret]

RECURSIVE set_pos_loop(_, _, _, _, _)
\* the while loop of str_set_pos_iter
set_pos_loop(s, end, i, col, rccol) ==
    LET nx == str_next_ofs(s, end, i, 0)
    IN IF col < rccol /\ i < end /\ nx.ofs > 0
       THEN set_pos_loop(s, end, i + nx.ofs, col + nx.width, rccol)
       ELSE i

\* str_set_pos_iter on the row r, which is the row rc->row: the position stored
str_set_pos_iter(s, r, rccol) == set_pos_loop(s, r.start + r.len, r.start, 0, rccol)

\* str_get_pos_at_rc(s, len, termw, promptw, cpromptw, row, col); the visitor
\* str_set_pos_iter stops the walk at the row `row`
str_get_pos_at_rc(s, len, L, row, col) ==
    LET w    == str_for_each_row(s, len, L, row)
        hit  == w.rows[Len(w.rows)]
    IN IF row >= 0 /\ hit.row = row THEN str_set_pos_iter(s, hit, col) ELSE 0 - 1

(***************************************************************************)
(* SpecRowCol: the row and column of a position of the buffer, and the     *)
(* position of a row and column.                                           *)
(***************************************************************************)
Layout(termw, promptw, cpromptw) ==
    [termw |-> termw, promptw |-> promptw, cpromptw |-> cpromptw]

\* sbuf_get_rc_at_pos(sbuf, termw, promptw, cpromptw, pos, &rc)
GetRcAtPos(termw, promptw, cpromptw, pos) ==
    /\ Alive
    /\ LET r == str_get_rc_at_pos(buf, count, Layout(termw, promptw, cpromptw), pos)
       IN Log("rc_at_pos", pos, 0, <<>>, FALSE,
              [termw |-> termw, promptw |-> promptw, cpromptw |-> cpromptw,
               rc |-> r.rc, rows |-> r.rows])
    /\ UNCHANGED <<buf, buflen, count>>

\* sbuf_get_pos_at_rc(sbuf, termw, promptw, cpromptw, row, col)
GetPosAtRc(termw, promptw, cpromptw, row, col) ==
    /\ Alive
    /\ Log("pos_at_rc", 0, 0, <<>>, FALSE,
           [termw |-> termw, promptw |-> promptw, cpromptw |-> cpromptw,
            row |-> row, col |-> col,
            pos |-> str_get_pos_at_rc(buf, count, Layout(termw, promptw, cpromptw),
                                      row, col)])
    /\ UNCHANGED <<buf, buflen, count>>

NextRowCol ==
    \/ \E termw \in 0..MaxTermW, promptw \in 0..1, cpromptw \in 0..1,
          pos \in 0..count : GetRcAtPos(termw, promptw, cpromptw, pos)
    \/ \E termw \in 0..MaxTermW, promptw \in 0..1, cpromptw \in 0..1,
          row \in 0..1 : GetPosAtRc(termw, promptw, cpromptw, row, 2)
    \/ Return

\* '\n', ESC, 'a', a follower byte, the lead byte of a two-byte code point
RowColBytes == {NL, ESC, 97, 129, 195}

\* a buffer that holds any bytes of RowColBytes, appended to a new buffer
InitRowCol ==
    \E n \in 0..MaxScanLen : \E s \in [1..n -> RowColBytes] :
        LET sb == sbuf_append_n(sbuf_init, s, n, TRUE).sb
        IN /\ buf = sb.buf
           /\ buflen = sb.buflen
           /\ count = sb.count
           /\ wc \in Widths
           /\ last = NoCall

SpecRowCol == InitRowCol /\ [][NextRowCol]_vars

\* pos is where a display unit of the content starts, or the end of the content
OnUnitBoundary(pos) == \E k \in 0..count : Walk(SB, 0, k) = pos

\* the display width of the unit of the content that ends at pos, 0 - 1 if none
WidthBefore(pos) ==
    LET qs == {q \in 0..(pos - 1) :
                  OnUnitBoundary(q) /\ q + sbuf_next_ofs(SB, q, 0).ofs = pos}
    IN IF qs = {} THEN 0 - 1
       ELSE sbuf_next_ofs(SB, CHOOSE q \in qs : TRUE, 0).width

\* the position of the row and column that last found
BackPos ==
    str_get_pos_at_rc(buf, count,
                      Layout(last.ret.termw, last.ret.promptw, last.ret.cpromptw),
                      last.ret.rc.row, last.ret.rc.col)

\* the position found lies in the row that holds last.pos
InSameRow ==
    /\ last.ret.rc.found
    /\ last.ret.rc.row_start <= BackPos
    /\ BackPos <= last.ret.rc.row_start + last.ret.rc.row_len

\* C12 as stated: for every pos in [0, length] the position of the row and
\* column of pos lies in the row of pos, and is pos whenever pos is on a
\* display-unit boundary.
C12_RowColRoundTrip_AsStated ==
    (last.op = "rc_at_pos" /\ last.pos >= 0 /\ last.pos <= count)
        => /\ InSameRow
           /\ OnUnitBoundary(last.pos) => BackPos = last.pos

\* C12 as amended: for every pos in [0, length] the position of the row and
\* column of pos lies in the row of pos; when pos is on a display-unit
\* boundary it is not after pos, and it is pos when pos is the start of its
\* row or the end of a unit of non-zero display width.
C12_RowColRoundTrip ==
    (last.op = "rc_at_pos" /\ last.pos >= 0 /\ last.pos <= count)
        => /\ InSameRow
           /\ OnUnitBoundary(last.pos) => BackPos <= last.pos
           /\ (/\ OnUnitBoundary(last.pos)
               /\ (last.pos = last.ret.rc.row_start \/ WidthBefore(last.pos) > 0))
              => BackPos = last.pos

\* a position in the second row, after a unit of width 2, was found again
C12_Witness ==
    /\ last.op = "rc_at_pos"
    /\ last.ret.rc.row = 1
    /\ last.ret.rc.col = 2
    /\ last.pos = count
    /\ OnUnitBoundary(last.pos)
    /\ WidthBefore(last.pos) = 2
    /\ BackPos = last.pos

(***************************************************************************)
(* Searching the start and the end of a word.  `char` is signed in some    *)
(* builds and unsigned in others: schar says which.                        *)
(***************************************************************************)
\* the value of the char that holds the byte b
CharOf(b, schar) == IF schar /\ b >= 128 THEN b - 256 ELSE b

\* a match_nonletter for which every unit is a letter
match_nonletter_never(s, p, n, schar) == FALSE

\* match_nonletter(s + p, n)
match_nonletter(s, p, n, schar) ==
    LET c == CharOf(Rd(s, p, 0), schar)
    IN ~(\/ n > 1
         \/ (c >= 97 /\ c <= 122)
         \/ (c >= 65 /\ c <= 90)
         \/ (c >= 48 /\ c <= 57)
         \/ c = 95
         \/ c = 45
         \/ c > 126)

\* pos clamped to [0, len]
clamp_pos(len, pos) == IF pos > len THEN (IF len < 0 THEN 0 ELSE len)
                       ELSE IF pos < 0 THEN 0 ELSE pos

RECURSIVE backward_skip(_, _, _)
\* the first do-while loop of str_find_backward, entered at i
backward_skip(s, i, schar) ==
    LET prev == str_prev_ofs(s, i, 0).ofs
    IN IF prev <= 0 THEN i
       ELSE IF ~match_nonletter(s, i - prev, prev, schar) THEN i
       ELSE IF i - prev > 0 THEN backward_skip(s, i - prev, schar)
       ELSE i - prev

RECURSIVE backward_find(_, _, _)
\* the second do-while loop of str_find_backward, entered at i
backward_find(s, i, schar) ==
    LET prev == str_prev_ofs(s, i, 0).ofs
    IN IF prev <= 0 THEN 0 - 1
       ELSE IF match_nonletter(s, i - prev, prev, schar) THEN i
       ELSE IF i - prev > 0 THEN backward_find(s, i - prev, schar)
       ELSE 0 - 1

\* str_find_backward(s, len, pos, &match_nonletter, skip_immediate_matches)
str_find_backward(s, len, pos, skip, schar) ==
    LET i0 == clamp_pos(len, pos)
        i1 == IF skip THEN backward_skip(s, i0, schar) ELSE i0
    IN backward_find(s, i1, schar)

RECURSIVE forward_skip(_, _, _, _)
\* the first do-while loop of str_find_forward, entered at i
forward_skip(s, len, i, schar) ==
    LET next == str_next_ofs(s, len, i, 0).ofs
    IN IF next <= 0 THEN i
       ELSE IF ~match_nonletter(s, i, next, schar) THEN i
       ELSE IF i + next < len THEN forward_skip(s, len, i + next, schar)
       ELSE i + next

RECURSIVE forward_find(_, _, _, _)
\* the second do-while loop of str_find_forward, entered at i
forward_find(s, len, i, schar) ==
    LET next == str_next_ofs(s, len, i, 0).ofs
    IN IF next <= 0 THEN 0 - 1
       ELSE IF match_nonletter(s, i, next, schar) THEN i
       ELSE IF i + next < len THEN forward_find(s, len, i + next, schar)
       ELSE 0 - 1

\* str_find_forward(s, len, pos, &match_nonletter, skip_immediate_matches)
str_find_forward(s, len, pos, skip, schar) ==
    IF IsNull(s) \/ len < 0 THEN 0 - 1
    ELSE LET i0 == clamp_pos(len, pos)
             i1 == IF skip THEN forward_skip(s, len, i0, schar) ELSE i0
         IN forward_find(s, len, i1, schar)

\* str_find_word_start(s, len, pos)
str_find_word_start(s, len, pos, schar) ==
    LET start == str_find_backward(s, len, pos, TRUE, schar)
    IN IF start < 0 THEN 0 ELSE start

\* str_find_word_end(s, len, pos)
str_find_word_end(s, len, pos, schar) ==
    LET end == str_find_forward(s, len, pos, TRUE, schar)
    IN IF end < 0 THEN len ELSE end

(***************************************************************************)
(* SpecWord: the start and the end of the word at a position.              *)
(***************************************************************************)
\* ' ', 'a', DEL, ESC, a follower byte, the lead byte of a two-byte code point
WordBytes == {32, 97, 127, ESC, 129, 195}

\* "foo  bar_baz"
FooBar == <<102, 111, 111, 32, 32, 98, 97, 114, 95, 98, 97, 122>>

WordContents ==
    {FooBar} \cup UNION {[1..n -> WordBytes] : n \in 0..MaxScanLen}

\* a buffer that holds "foo  bar_baz" or any bytes of WordBytes
InitWord ==
    \E s \in WordContents :
        LET sb == sbuf_append_n(sbuf_init, s, Len(s), TRUE).sb
        IN /\ buf = sb.buf
           /\ buflen = sb.buflen
           /\ count = sb.count
           /\ wc \in Widths
           /\ last = NoCall

\* sbuf_find_word_start(sbuf, pos)
FindWordStart(pos, schar) ==
    /\ Alive
    /\ Log("word_start", pos, 0, <<>>, FALSE,
           [schar |-> schar, pos |-> str_find_word_start(buf, count, pos, schar)])
    /\ UNCHANGED <<buf, buflen, count>>

\* sbuf_find_word_end(sbuf, pos)
FindWordEnd(pos, schar) ==
    /\ Alive
    /\ Log("word_end", pos, 0, <<>>, FALSE,
           [schar |-> schar, pos |-> str_find_word_end(buf, count, pos, schar)])
    /\ UNCHANGED <<buf, buflen, count>>

NextWord ==
    \/ \E pos \in Pos, schar \in BOOLEAN : FindWordStart(pos, schar)
    \/ \E pos \in Pos, schar \in BOOLEAN : FindWordEnd(pos, schar)
    \/ Return

SpecWord == InitWord /\ [][NextWord]_vars

\* a byte that is an ASCII letter or digit, '_' or '-'
IsWordByte(b) ==
    \/ (b >= 97 /\ b <= 122)
    \/ (b >= 65 /\ b <= 90)
    \/ (b >= 48 /\ b <= 57)
    \/ b = 95
    \/ b = 45

\* the unit of n bytes at p is a word unit as C13 lists them: ASCII
\* letter or digit, '_', '-', or multibyte
WordUnitListed(p, n) == n > 1 \/ IsWordByte(Content[p + 1])

\* the unit of n bytes at p is a word unit: as listed, or the byte 0x7F, or
\* a single byte above 0x7F where char is unsigned
WordUnit(p, n) ==
    \/ WordUnitListed(p, n)
    \/ n = 1 /\ Content[p + 1] = 127
    \/ n = 1 /\ Content[p + 1] >= 128 /\ ~last.ret.schar

RECURSIVE BackOver(_, _, _)
\* from i back over the units, as the backward scan gives them, that are word
\* units (word = TRUE) or are not (word = FALSE); listed chooses the class
BackOver(i, word, listed) ==
    LET n == sbuf_prev_ofs(SB, i, 0).ofs
        w == IF listed THEN WordUnitListed(i - n, n) ELSE WordUnit(i - n, n)
    IN IF i > 0 /\ n > 0 /\ (w <=> word) THEN BackOver(i - n, word, listed) ELSE i

RECURSIVE ForthOver(_, _, _)
\* from i forth over the units, as the forward scan gives them
ForthOver(i, word, listed) ==
    LET n == sbuf_next_ofs(SB, i, 0).ofs
        w == IF listed THEN WordUnitListed(i, n) ELSE WordUnit(i, n)
    IN IF i < count /\ n > 0 /\ (w <=> word) THEN ForthOver(i + n, word, listed) ELSE i

\* the words of C13 with the word units of the class chosen by listed
WordBounds(listed) ==
    LET c == clamp_pos(count, last.pos)
        r == last.ret.pos
    IN /\ last.op = "word_start"
          => /\ 0 <= r /\ r <= c
             /\ r = BackOver(BackOver(c, FALSE, listed), TRUE, listed)
       /\ last.op = "word_end"
          => /\ c <= r /\ r <= count
             /\ r = ForthOver(ForthOver(c, FALSE, listed), TRUE, listed)
       /\ (Content = FooBar /\ last.op = "word_start" /\ last.pos = 12) => r = 5
       /\ (Content = FooBar /\ last.op = "word_end" /\ last.pos = 0) => r = 3

\* C13 as stated: for any buffer and any integer pos, clamped to c in
\* [0, length], find_word_start returns the start s <= c of the run of word
\* units (ASCII letter or digit, '_', '-', multibyte) reached after skipping
\* the non-word units before c, find_word_end returns the end e >= c
\* symmetrically, and in "foo  bar_baz" the start from 12 is 5 and the end
\* from 0 is 3.
C13_WordBounds_AsStated ==
    last.op \in {"word_start", "word_end"} => WordBounds(TRUE)

\* C13 as amended: the same, where the units are those of the scan in the
\* direction of the search, and the word units are the units of more than one
\* byte, the ASCII letters and digits, '_', '-', the byte 0x7F and, in a
\* build with unsigned char, a single byte above 0x7F.
C13_WordBounds ==
    last.op \in {"word_start", "word_end"} => WordBounds(FALSE)

\* the start of "bar_baz" found from the end of "foo  bar_baz"
C13_Witness ==
    /\ last.op = "word_start"
    /\ Content = FooBar
    /\ last.pos = 12
    /\ last.ret.pos = 5

(***************************************************************************)
(* SpecDup: the duplicate of the content for a terminal without UTF-8.     *)
(* unicode_from_qutf8 and unicode_is_raw are not part of this file: for a  *)
(* unit of several bytes that is no escape sequence the duplicate gets one *)
(* byte (a raw byte or an ASCII code point) or none; raw is the set of the *)
(* positions whose unit gives a byte.                                      *)
(***************************************************************************)
RECURSIVE strdup_loop(_, _, _, _)
\* the for loop of sbuf_strdup_from_utf8: the indices of s written, in order
strdup_loop(sb, i, raw, writes) ==
    LET ofs  == sbuf_next_ofs(sb, i, 0).ofs
        dest == Len(writes)
    IN IF i < sb.count /\ ofs > 0
       THEN LET out == \/ ofs = 1
                       \/ Rd(sb.buf, i, 0) # ESC /\ i \in raw
            IN strdup_loop(sb, i + ofs, raw,
                           IF out THEN Append(writes, dest) ELSE writes)
       ELSE writes

\* sbuf_strdup_from_utf8(sbuf): the size of the allocation of s and the
\* indices of s written, the last one by s[dest] = 0; no allocation for an
\* empty buffer or when the allocator fails
sbuf_strdup_from_utf8(sb, raw, ok) ==
    IF sb.count <= 0 \/ ~ok THEN [alloc |-> 0, writes |-> <<>>]
    ELSE LET w == strdup_loop(sb, 0, raw, <<>>)
         IN [alloc |-> sb.count, writes |-> Append(w, Len(w))]

\* sbuf_strdup_from_utf8(sbuf)
StrdupFromUtf8(raw, ok) ==
    /\ Alive
    /\ Log("strdup", 0, 0, <<>>, ~ok, sbuf_strdup_from_utf8(SB, raw, ok))
    /\ UNCHANGED <<buf, buflen, count>>

NextDup ==
    \/ \E raw \in SUBSET (0..(count - 1)), ok \in BOOLEAN : StrdupFromUtf8(raw, ok)
    \/ Return

SpecDup == InitScan /\ [][NextDup]_vars

\* C14: sbuf_strdup_from_utf8 allocates len bytes for its output, and every
\* index it writes, that of the final 0 byte included, is less than len.
C14_WritesInside ==
    last.op = "strdup"
        => \A k \in 1..Len(last.ret.writes) :
              last.ret.writes[k] >= 0 /\ last.ret.writes[k] < last.ret.alloc

=============================================================================
